---------------------------- MODULE Spec2Model ----------------------------
(* A state-machine model of src/src/model/model.py: the batch driver main() *)
(* and the per-video annotation loop process_video().  The program is       *)
(* single-threaded; pc is the position of its one thread of control.        *)
(*                                                                          *)
(* Strings (file names) are sequences of one-character strings, so that     *)
(* lower(), endswith() and os.path.splitext() are computed, not assumed.    *)
(* Box coordinates are floats in the code; here a coordinate is an integer  *)
(* number of half pixels, and int() truncates it toward zero.               *)
(* Confidences are integers in thousandths; the ".2f" format rounds them    *)
(* to hundredths.                                                           *)
EXTENDS Integers, Sequences, FiniteSets, TLC

(***************************************************************************)
(* Bounds of the model                                                     *)
(***************************************************************************)
\* largest number of entries in the input directory listing
MaxFiles == 2
\* largest number of frames a source yields
MaxFrames == 2

(***************************************************************************)
(* Strings                                                                 *)
(***************************************************************************)
UpperChars == <<"A","B","C","D","E","F","G","H","I","J","K","L","M",
                "N","O","P","Q","R","S","T","U","V","W","X","Y","Z">>
LowerChars == <<"a","b","c","d","e","f","g","h","i","j","k","l","m",
                "n","o","p","q","r","s","t","u","v","w","x","y","z">>

\* str.lower() on one character
LowerChar(c) ==
    IF \E j \in 1..Len(UpperChars) : UpperChars[j] = c
    THEN LowerChars[CHOOSE j \in 1..Len(UpperChars) : UpperChars[j] = c]
    ELSE c

\* str.lower()
Lower(s) == [j \in 1..Len(s) |-> LowerChar(s[j])]

\* str.endswith(suffix)
EndsWith(s, suf) ==
    /\ Len(suf) <= Len(s)
    /\ SubSeq(s, Len(s) - Len(suf) + 1, Len(s)) = suf

\* the allow-list of line 130
VideoSuffixes ==
    { <<".","m","p","4">>, <<".","a","v","i">>,
      <<".","m","o","v">>, <<".","m","k","v">> }

\* variant: the suffix test without lower()
IsVideoName_CaseSensitive(filename) ==
    \E suf \in VideoSuffixes : EndsWith(filename, suf)

\* filename.lower().endswith((".mp4", ".avi", ".mov", ".mkv"))
IsVideoName(filename) ==
    \E suf \in VideoSuffixes : EndsWith(Lower(filename), suf)

\* os.path.splitext(filename)[0] for a name without directory separators:
\* the text before the last dot, unless only dots precede that dot.
SplitExtRoot(p) ==
    LET dots == { j \in 1..Len(p) : p[j] = "." }
    IN  IF dots = {}
        THEN p
        ELSE LET dotIndex == CHOOSE j \in dots : \A m \in dots : m <= j
             IN  IF \E m \in 1..(dotIndex - 1) : p[m] # "."
                 THEN SubSeq(p, 1, dotIndex - 1)
                 ELSE p

ProcessedSuffix ==
    <<"_","p","r","o","c","e","s","s","e","d",".","m","p","4">>

\* base_name + "_processed.mp4", the output's name inside output_dir
OutputName(filename) == SplitExtRoot(filename) \o ProcessedSuffix

(***************************************************************************)
(* Inputs: directory entries, detector outputs, the class table            *)
(***************************************************************************)
\* entries the input directory may hold
Names ==
    { <<"a",".","m","p","4">>,
      <<"a",".","a","v","i">>,
      <<"A",".","M","O","V">>,
      <<"n",".","t","x","t">>,
      <<".","m","k","v">> }

\* os.listdir(input_dir): distinct names, in any order
Listings ==
    { l \in UNION { [1..n -> Names] : n \in 0..MaxFiles } :
        \A a, b \in 1..Len(l) : a # b => l[a] # l[b] }

\* config.classes: class id -> name
classes == (0 :> "person") @@ (1 :> "car")

\* one detection: box (x1, y1, x2, y2) in half pixels, confidence in
\* thousandths, class id
DetA == [box |-> <<24, 40, 80, 120>>,  conf |-> 914, cls |-> 0]
DetB == [box |-> <<-5, 12, 61, 90>>,   conf |-> 417, cls |-> 1]
DetC == [box |-> <<-6, -4, 30, 2000>>, conf |-> 996, cls |-> 0]
DetD == [box |-> <<8, 20, 10, 31>>,    conf |-> 502, cls |-> 1]
DetE == [box |-> <<6, 0, 40, 18>>,     conf |-> 660, cls |-> 0]
DetU == [box |-> <<2, 6, 10, 30>>,     conf |-> 731, cls |-> 2]

Boxes(ds) == [j \in 1..Len(ds) |-> ds[j].box]
Confs(ds) == [j \in 1..Len(ds) |-> ds[j].conf]
ClassIds(ds) == [j \in 1..Len(ds) |-> ds[j].cls]

\* results[0].boxes as the loop reads it: xyxy (or None), conf, cls
Result(ds) ==
    [has_boxes |-> TRUE, boxes |-> Boxes(ds),
     confs |-> Confs(ds), class_ids |-> ClassIds(ds)]

NoBoxes ==
    [has_boxes |-> FALSE, boxes |-> <<>>, confs |-> <<>>, class_ids |-> <<>>]

\* what model.predict may return for a frame
DetectorOutputs ==
    { NoBoxes,
      Result(<<>>),
      Result(<<DetE>>),
      Result(<<DetB, DetC>>),
      Result(<<DetD, DetA, DetB>>),
      Result(<<DetA, DetU>>) }

NoResult == NoBoxes
NoName == <<>>
NoFrame == [src |-> NoName, idx |-> 0, overlays |-> <<>>]

(***************************************************************************)
(* Pure helpers of the drawing loop                                        *)
(***************************************************************************)
\* int(x) on a float: truncation toward zero
ToInt(v) == IF v >= 0 THEN v \div 2 ELSE -((-v) \div 2)

\* f"{float(conf):.2f}": hundredths
Fmt2(c) == (c + 5) \div 10

Min2(a, b) == IF a <= b THEN a ELSE b
Max2(a, b) == IF a >= b THEN a ELSE b

\* number of iterations of zip(boxes, confs, class_ids)
ZipLen(r) == Min2(Len(r.boxes), Min2(Len(r.confs), Len(r.class_ids)))

\* the pixel offset of the label above the box, line 100
LabelOffset == 10

\* cv2.rectangle(frame, (x1, y1), (x2, y2), (0, 255, 0), 2)
RectangleOp(box) ==
    [op |-> "rectangle",
     p1 |-> <<ToInt(box[1]), ToInt(box[2])>>,
     p2 |-> <<ToInt(box[3]), ToInt(box[4])>>]

\* variant: the label origin without the max(..., 0)
LabelOrg_Unclamped(box) == <<ToInt(box[1]), ToInt(box[2]) - LabelOffset>>

\* (x1, max(y1 - 10, 0))
LabelOrg(box) == <<ToInt(box[1]), Max2(ToInt(box[2]) - LabelOffset, 0)>>

\* cv2.putText(frame, label, (x1, max(y1 - 10, 0)), ...)
PutTextOp(box, conf, cls_id) ==
    [op |-> "text", name |-> classes[cls_id], conf |-> Fmt2(conf),
     org |-> LabelOrg(box)]

(***************************************************************************)
(* State                                                                   *)
(***************************************************************************)
VARIABLES
    listing,        \* os.listdir(input_dir)
    i,              \* index of the entry the for loop of main is at
    pc,             \* position of the thread of control
    calls,          \* file names process_video was invoked with, in order
    status,         \* per call: "running", "open_failed" or "exhausted"
    handles,        \* the open, not yet released, capture and writer handles
    pos,            \* frames the current source has yielded
    frame,          \* the frame buffer of the current iteration
    dets,           \* the detector's result for the current frame
    k,              \* index of the next zip iteration
    frame_counter,  \* line 74
    out,            \* frames written to the current sink, in order
    files,          \* files of output_dir: [name, src, n], one per name
    console         \* what was printed

vars == <<listing, i, pc, calls, status, handles, pos, frame, dets, k,
          frame_counter, out, files, console>>

Init ==
    /\ listing \in Listings
    /\ i = 1
    /\ pc = "loop"
    /\ calls = <<>>
    /\ status = <<>>
    /\ handles = {}
    /\ pos = 0
    /\ frame = NoFrame
    /\ dets = NoResult
    /\ k = 1
    /\ frame_counter = -1
    /\ out = <<>>
    /\ files = {}
    /\ console = <<>>


(***************************************************************************)
(* Helpers on the state                                                    *)
(***************************************************************************)
\* the file name the running call of process_video was given
CurName == calls[Len(calls)]

CapHandle(filename) == [kind |-> "cap", path |-> filename]
OutHandle(filename) == [kind |-> "out", path |-> OutputName(filename)]

Msg(m, path, n) == [msg |-> m, path |-> path, n |-> n]

\* cv2.VideoWriter(output_video_path, ...): the file is created, or an
\* existing file of that name is replaced
CreateFile(fs, filename) ==
    { f \in fs : f.name # OutputName(filename) }
        \cup { [name |-> OutputName(filename), src |-> filename, n |-> 0] }

\* out.write(frame) as the file sees it
AppendToFile(fs, filename) ==
    { IF f.name = OutputName(filename) THEN [f EXCEPT !.n = @ + 1] ELSE f :
        f \in fs }

(***************************************************************************)
(* main, lines 116-134                                                     *)
(***************************************************************************)
\* line 130 false: the entry is not a video, the loop goes on
MainSkip ==
    /\ pc = "loop"
    /\ i <= Len(listing)
    /\ ~IsVideoName(listing[i])
    /\ i' = i + 1
    /\ UNCHANGED <<listing, pc, calls, status, handles, pos, frame, dets, k,
                   frame_counter, out, files, console>>

\* lines 130-132: the entry is a video, process_video is called
MainCall ==
    /\ pc = "loop"
    /\ i <= Len(listing)
    /\ IsVideoName(listing[i])
    /\ calls' = Append(calls, listing[i])
    /\ status' = Append(status, "running")
    /\ pc' = "open"
    /\ UNCHANGED <<listing, i, handles, pos, frame, dets, k, frame_counter,
                   out, files, console>>

\* line 134: the loop is over, the completion message is printed
MainDone ==
    /\ pc = "loop"
    /\ i > Len(listing)
    /\ console' = Append(console, Msg("done", NoName, 0))
    /\ pc' = "done"
    /\ UNCHANGED <<listing, i, calls, status, handles, pos, frame, dets, k,
                   frame_counter, out, files>>

(***************************************************************************)
(* process_video, lines 33-113                                             *)
(***************************************************************************)
\* variant: the writer is created before the isOpened check
OpenFail_AfterWriter ==
    /\ pc = "open"
    /\ files' = CreateFile(files, CurName)
    /\ console' = Append(console, Msg("open_failed", CurName, 0))
    /\ status' = [status EXCEPT ![Len(calls)] = "open_failed"]
    /\ pc' = "loop"
    /\ i' = i + 1
    /\ UNCHANGED <<listing, calls, handles, pos, frame, dets, k,
                   frame_counter, out>>

\* lines 57-61: the capture did not open; report and return
OpenFail ==
    /\ pc = "open"
    /\ console' = Append(console, Msg("open_failed", CurName, 0))
    /\ status' = [status EXCEPT ![Len(calls)] = "open_failed"]
    /\ pc' = "loop"
    /\ i' = i + 1
    /\ UNCHANGED <<listing, calls, handles, pos, frame, dets, k,
                   frame_counter, out, files>>

\* lines 57-74: the capture opened; the writer is created on the output path
OpenOk ==
    /\ pc = "open"
    /\ handles' = handles \cup {CapHandle(CurName), OutHandle(CurName)}
    /\ files' = CreateFile(files, CurName)
    /\ out' = <<>>
    /\ pos' = 0
    /\ frame_counter' = -1
    /\ pc' = "read"
    /\ UNCHANGED <<listing, i, calls, status, frame, dets, k, console>>

\* variant: the drawing of the frame before stays on the buffer
ReadFrame_KeepsOverlays ==
    /\ pc = "read"
    /\ pos < MaxFrames
    /\ \E r \in DetectorOutputs :
          /\ dets' = r
          /\ frame' = [src |-> CurName, idx |-> pos + 1,
                       overlays |-> frame.overlays]
    /\ pos' = pos + 1
    /\ frame_counter' = frame_counter + 1
    /\ k' = 1
    /\ pc' = "draw"
    /\ UNCHANGED <<listing, i, calls, status, handles, out, files, console>>

\* lines 76-86: cap.read() yields the next frame and the detector is run on it
ReadFrame ==
    /\ pc = "read"
    /\ pos < MaxFrames
    /\ \E r \in DetectorOutputs :
          /\ dets' = r
          /\ frame' = [src |-> CurName, idx |-> pos + 1, overlays |-> <<>>]
    /\ pos' = pos + 1
    /\ frame_counter' = frame_counter + 1
    /\ k' = 1
    /\ pc' = "draw"
    /\ UNCHANGED <<listing, i, calls, status, handles, out, files, console>>

\* variant: "continue" in place of "break" when cap.read() yields no frame
ReadEnd_Spins ==
    /\ pc = "read"
    /\ UNCHANGED vars

\* lines 76-78: cap.read() yields no frame; the loop is left
ReadEnd ==
    /\ pc = "read"
    /\ pc' = "release"
    /\ UNCHANGED <<listing, i, calls, status, handles, pos, frame, dets, k,
                   frame_counter, out, files, console>>

\* lines 90-105, one iteration of the zip loop with a class id of the table
DrawDetection ==
    /\ pc = "draw"
    /\ dets.has_boxes
    /\ k <= ZipLen(dets)
    /\ dets.class_ids[k] \in DOMAIN classes
    /\ frame' = [frame EXCEPT !.overlays =
                    @ \o << RectangleOp(dets.boxes[k]),
                            PutTextOp(dets.boxes[k], dets.confs[k],
                                      dets.class_ids[k]) >>]
    /\ k' = k + 1
    /\ UNCHANGED <<listing, i, pc, calls, status, handles, pos, dets,
                   frame_counter, out, files, console>>

\* variant: the lookup failure is swallowed and the zip loop goes on
DrawFault_SkipsDetection ==
    /\ pc = "draw"
    /\ dets.has_boxes
    /\ k <= ZipLen(dets)
    /\ dets.class_ids[k] \notin DOMAIN classes
    /\ frame' = [frame EXCEPT !.overlays =
                    Append(@, RectangleOp(dets.boxes[k]))]
    /\ k' = k + 1
    /\ UNCHANGED <<listing, i, pc, calls, status, handles, pos, dets,
                   frame_counter, out, files, console>>

\* lines 90-95, an iteration whose class id is not in the table: the
\* rectangle is drawn, classes[int(cls_id)] raises, nothing catches it
DrawFault ==
    /\ pc = "draw"
    /\ dets.has_boxes
    /\ k <= ZipLen(dets)
    /\ dets.class_ids[k] \notin DOMAIN classes
    /\ frame' = [frame EXCEPT !.overlays =
                    Append(@, RectangleOp(dets.boxes[k]))]
    /\ pc' = "aborted"
    /\ UNCHANGED <<listing, i, calls, status, handles, pos, dets, k,
                   frame_counter, out, files, console>>

\* variant: only frames that carry a drawing are written
WriteFrame_SkipsPlain ==
    /\ pc = "draw"
    /\ (~dets.has_boxes \/ k > ZipLen(dets))
    /\ out' = IF frame.overlays = <<>> THEN out ELSE Append(out, frame)
    /\ files' = IF frame.overlays = <<>> THEN files
                ELSE AppendToFile(files, CurName)
    /\ console' = Append(console, Msg("progress", CurName, frame_counter))
    /\ pc' = "read"
    /\ UNCHANGED <<listing, i, calls, status, handles, pos, frame, dets, k,
                   frame_counter>>

\* variant: the frame is put in front of the frames already written
WriteFrame_Prepends ==
    /\ pc = "draw"
    /\ (~dets.has_boxes \/ k > ZipLen(dets))
    /\ out' = <<frame>> \o out
    /\ files' = AppendToFile(files, CurName)
    /\ console' = Append(console, Msg("progress", CurName, frame_counter))
    /\ pc' = "read"
    /\ UNCHANGED <<listing, i, calls, status, handles, pos, frame, dets, k,
                   frame_counter>>

\* lines 107-109: the zip loop is over (or boxes is None); the frame is
\* written and the progress line is printed
WriteFrame ==
    /\ pc = "draw"
    /\ (~dets.has_boxes \/ k > ZipLen(dets))
    /\ out' = Append(out, frame)
    /\ files' = AppendToFile(files, CurName)
    /\ console' = Append(console, Msg("progress", CurName, frame_counter))
    /\ pc' = "read"
    /\ UNCHANGED <<listing, i, calls, status, handles, pos, frame, dets, k,
                   frame_counter>>

\* variant: out.release() is left out
Release_LeaksWriter ==
    /\ pc = "release"
    /\ handles' = handles \ {CapHandle(CurName)}
    /\ console' = Append(console, Msg("saved", OutputName(CurName), 0))
    /\ status' = [status EXCEPT ![Len(calls)] = "exhausted"]
    /\ pos' = 0
    /\ frame' = NoFrame
    /\ dets' = NoResult
    /\ k' = 1
    /\ frame_counter' = -1
    /\ out' = <<>>
    /\ pc' = "loop"
    /\ i' = i + 1
    /\ UNCHANGED <<listing, calls, files>>

\* lines 111-113: both handles are released, the file is reported, and
\* process_video returns; its locals are gone
Release ==
    /\ pc = "release"
    /\ handles' = handles \ {CapHandle(CurName), OutHandle(CurName)}
    /\ console' = Append(console, Msg("saved", OutputName(CurName), 0))
    /\ status' = [status EXCEPT ![Len(calls)] = "exhausted"]
    /\ pos' = 0
    /\ frame' = NoFrame
    /\ dets' = NoResult
    /\ k' = 1
    /\ frame_counter' = -1
    /\ out' = <<>>
    /\ pc' = "loop"
    /\ i' = i + 1
    /\ UNCHANGED <<listing, calls, files>>

Next ==
    \/ MainSkip
    \/ MainCall
    \/ MainDone
    \/ OpenFail
    \/ OpenOk
    \/ ReadFrame
    \/ ReadEnd
    \/ DrawDetection
    \/ DrawFault
    \/ WriteFrame
    \/ Release

Spec == Init /\ [][Next]_vars

\* the interpreter keeps running the one thread until it returns or dies
FairSpec == Spec /\ WF_vars(Next)


(***************************************************************************)
(* Helpers of the properties                                               *)
(***************************************************************************)
Running == calls # <<>> /\ status[Len(calls)] = "running"

\* entries of the listing the for loop has reached
Reached ==
    SubSeq(listing, 1, IF pc \in {"loop", "done"} THEN i - 1 ELSE i)

CountMsg(m) == Cardinality({ j \in 1..Len(console) : console[j].msg = m })

\* the frame as cap.read() returned it
FrameRead(filename, n) == [src |-> filename, idx |-> n, overlays |-> <<>>]

IsInt(v) == v % 2 = 0

\* the four suffixes in every mix of upper and lower case
SuffixVariants ==
    { <<".", a, b, c>> : a \in {"m", "M"}, b \in {"p", "P"}, c \in {"4"} }
      \cup
    { <<".", a, b, c>> : a \in {"a", "A"}, b \in {"v", "V"}, c \in {"i", "I"} }
      \cup
    { <<".", a, b, c>> : a \in {"m", "M"}, b \in {"o", "O"}, c \in {"v", "V"} }
      \cup
    { <<".", a, b, c>> : a \in {"m", "M"}, b \in {"k", "K"}, c \in {"v", "V"} }

RecognisedName(name) ==
    /\ Len(name) >= 4
    /\ SubSeq(name, Len(name) - 3, Len(name)) \in SuffixVariants

(***************************************************************************)
(* C1                                                                      *)
(***************************************************************************)
\* C1: in every state the frames written to the sink are the frames read,
\* less the one frame that is read and not yet written; when the loop is
\* left because the source is exhausted, as many frames were written (to
\* the sink and to its file) as the source yielded, zero included.
C1_FrameCountPreserved ==
    /\ pc \in {"read", "release"} => Len(out) = pos
    /\ pc \in {"draw", "aborted"} => pos = Len(out) + 1
    /\ pc = "release" =>
          \E f \in files :
              f.name = OutputName(CurName) /\ f.src = CurName /\ f.n = pos

C1_Witness ==
    /\ pc = "release"
    /\ pos = 2
    /\ Len(out) = 2
    /\ out[1].overlays = <<>>
    /\ out[2].overlays # <<>>

(***************************************************************************)
(* C2                                                                      *)
(***************************************************************************)
\* C2: at every point of the loop the frames written so far are, in order,
\* the first frames read from the current source: the j-th frame written
\* is the j-th frame the source yielded, possibly with overlays.
C2_OrderPreserved ==
    /\ Len(out) <= pos
    /\ \A j \in 1..Len(out) : out[j].src = CurName /\ out[j].idx = j

C2_Witness ==
    /\ pc = "read"
    /\ Len(out) = 2
    /\ out[1].idx = 1
    /\ out[2].idx = 2
    /\ out[1].overlays # out[2].overlays

(***************************************************************************)
(* C3                                                                      *)
(***************************************************************************)
\* C3: a call whose source did not open has reported the failure once, has
\* created no output file and no handle, has printed no "saved" line and
\* has not ended the run; when the batch is done every recognised entry
\* was passed to process_video and every output file comes from a call
\* whose source opened.
C3_OpenFailureSkipsVideo ==
    /\ \A j \in 1..Len(calls) :
          status[j] = "open_failed" =>
              /\ Cardinality({ m \in 1..Len(console) :
                    console[m] = Msg("open_failed", calls[j], 0) }) = 1
              /\ ~ \E f \in files : f.src = calls[j]
              /\ CapHandle(calls[j]) \notin handles
              /\ OutHandle(calls[j]) \in handles
                    => Running /\ CurName # calls[j]
              /\ Cardinality({ m \in 1..Len(console) :
                    console[m] = Msg("saved", OutputName(calls[j]), 0) })
                 = Cardinality({ n \in 1..Len(calls) :
                    /\ status[n] = "exhausted"
                    /\ OutputName(calls[n]) = OutputName(calls[j]) })
              /\ j = Len(calls) => pc \in {"loop", "done"}
    /\ pc = "done" =>
          /\ Len(calls) =
                Cardinality({ j \in 1..Len(listing) : IsVideoName(listing[j]) })
          /\ \A f \in files :
                \E j \in 1..Len(calls) :
                    calls[j] = f.src /\ status[j] = "exhausted"

\* the scenario of the spec: an unopenable video, then an openable one
C3_Witness ==
    /\ pc = "done"
    /\ Len(calls) = 2
    /\ status = <<"open_failed", "exhausted">>
    /\ Cardinality(files) = 1
    /\ \E f \in files : f.src = calls[2] /\ f.name = OutputName(calls[2])

(***************************************************************************)
(* C4                                                                      *)
(***************************************************************************)
\* C4: between two videos, and at the end of the batch, no capture or
\* writer handle is open; a handle that is open belongs to the call that is
\* running, which holds its capture and its writer from the open to the
\* release; a call that is about to open holds none.
C4_HandlesReleased ==
    /\ pc \in {"loop", "done", "open"} => handles = {}
    /\ pc \in {"read", "draw", "release"} =>
          handles = {CapHandle(CurName), OutHandle(CurName)}
    /\ handles # {} => Running

C4_Witness ==
    /\ pc = "open"
    /\ Len(calls) = 2
    /\ status[1] = "exhausted"
    /\ handles = {}

(***************************************************************************)
(* C5                                                                      *)
(***************************************************************************)
\* C5: when the batch is done the output directory holds one file per
\* input whose source opened, named after that input's stem and produced
\* by it (not replaced by the output of another input).
C5_OneFilePerOpenedInput ==
    pc = "done" =>
        /\ Cardinality(files) =
              Cardinality({ j \in 1..Len(calls) : status[j] = "exhausted" })
        /\ \A j \in 1..Len(calls) :
              status[j] = "exhausted" =>
                  \E f \in files :
                      f.name = OutputName(calls[j]) /\ f.src = calls[j]

(***************************************************************************)
(* C6                                                                      *)
(***************************************************************************)
\* C6: the names process_video was invoked with are, in listing order and
\* once each, exactly the entries reached so far whose name ends, in any
\* letter case, with .mp4, .avi, .mov or .mkv; n.txt is never passed,
\* A.MOV is.
C6_CallsAreRecognisedEntries ==
    /\ calls = SelectSeq(Reached, RecognisedName)
    /\ \A j \in 1..Len(calls) : calls[j] # <<"n", ".", "t", "x", "t">>
    /\ \A j \in 1..Len(Reached) :
          Reached[j] = <<"A", ".", "M", "O", "V">> =>
              \E m \in 1..Len(calls) : calls[m] = Reached[j]

C6_Witness ==
    /\ pc = "done"
    /\ listing = << <<"n", ".", "t", "x", "t">>, <<"A", ".", "M", "O", "V">> >>
    /\ calls = << <<"A", ".", "M", "O", "V">> >>

(***************************************************************************)
(* C7                                                                      *)
(***************************************************************************)
\* every class id of the first n zip iterations is in the class table
C7_Mapped(n) ==
    \A j \in 1..n : dets.class_ids[j] \in DOMAIN classes

C7_AbortedState ==
    /\ Running
    /\ dets.has_boxes /\ k <= ZipLen(dets)
    /\ dets.class_ids[k] \notin DOMAIN classes
    /\ frame.idx = pos
    /\ Len(out) = pos - 1
    /\ \A j \in 1..Len(out) : out[j].idx # frame.idx
    /\ \E f \in files : f.src = CurName /\ f.n = pos - 1
    /\ CountMsg("done") = 0
    /\ CountMsg("saved") + CountMsg("open_failed") = Len(calls) - 1
    /\ calls[Len(calls)] = listing[i]

C8_Safety ==
    /\ CountMsg("done") = (IF pc = "done" THEN 1 ELSE 0)
    /\ \A j \in 1..Len(calls) :
          status[j] = "running" => j = Len(calls) /\ pc \notin {"loop", "done"}
    /\ pc = "done" =>
          /\ console[Len(console)].msg = "done"
          /\ calls = SelectSeq(listing, RecognisedName)
          /\ \A j \in 1..Len(calls) : status[j] \in {"open_failed", "exhausted"}
          /\ CountMsg("saved") + CountMsg("open_failed") = Len(calls)

\* C8: every run ends, with the completion message or with an unrecovered
\* fault; a call of process_video has ended (open failure or exhausted
\* source) before the next one starts; the completion message is printed
\* once, as the last line, after every recognised entry was processed.
C8_BatchTerminates ==
    /\ <>(pc \in {"done", "aborted"})
    /\ []C8_Safety

\* the end of a batch of two videos, the second with two frames
C8_Witness ==
    /\ pc = "done"
    /\ Len(calls) = 2
    /\ status[2] = "exhausted"
    /\ \E f \in files : f.src = calls[2] /\ f.n = 2
    /\ CountMsg("done") = 1

(***************************************************************************)
(* C9                                                                      *)
(***************************************************************************)
\* the drawing of detection j on the frame, for a box whose x1, y1 (label)
\* and x2, y2 (rectangle) are whole pixels
C9_DrawnAsGiven(j) ==
    LET b == dets.boxes[j]
        rect == frame.overlays[2 * j - 1]
        labelled == Len(frame.overlays) >= 2 * j
        text == frame.overlays[2 * j]
    IN  /\ rect.op = "rectangle"
        /\ IsInt(b[1]) => rect.p1[1] * 2 = b[1]
        /\ IsInt(b[2]) => rect.p1[2] * 2 = b[2]
        /\ IsInt(b[3]) => rect.p2[1] * 2 = b[3]
        /\ IsInt(b[4]) => rect.p2[2] * 2 = b[4]
        /\ labelled =>
              /\ text.op = "text"
              /\ text.org[2] >= 0
              /\ IsInt(b[1]) => text.org[1] * 2 = b[1]
              /\ (IsInt(b[2]) /\ b[2] >= 2 * 10) =>
                    text.org[2] * 2 = b[2] - 2 * 10
              /\ (IsInt(b[2]) /\ b[2] < 2 * 10) => text.org[2] = 0

\* C9: for every detection drawn on the current frame the label is at
\* (x1, max(y1 - 10, 0)): its y is never negative, is y1 - 10 when y1 >= 10
\* and 0 otherwise; the rectangle's corners and the label's x are the box's
\* coordinates as given, negative and out-of-frame values included.
C9_LabelClamped ==
    (pc \in {"draw", "aborted"} /\ dets.has_boxes) =>
        \A j \in 1..ZipLen(dets) :
            (2 * j - 1 <= Len(frame.overlays)) => C9_DrawnAsGiven(j)

\* a frame with a negative y1, a y1 in 1..9 and the y1 = 10 boundary drawn
C9_Witness ==
    /\ pc = "draw"
    /\ dets = Result(<<DetD, DetA, DetB>>)
    /\ k = 4
    /\ frame.overlays[2].org = <<4, 0>>
    /\ frame.overlays[4].org = <<12, 10>>
    /\ frame.overlays[6].org = <<-2, 0>>

(***************************************************************************)
(* C10                                                                     *)
(***************************************************************************)
C10_Count(opname) ==
    Cardinality({ j \in 1..Len(frame.overlays) : frame.overlays[j].op = opname })

C10_Detections == IF dets.has_boxes THEN ZipLen(dets) ELSE 0

\* C10: while a frame is annotated it carries one rectangle and one label
\* per zip iteration done, and nothing else; the frame written is the frame
\* read plus one rectangle and one label per detection of that frame, so a
\* frame with no detections (an empty or a missing box list) is written
\* exactly as it was read, whatever the frames before it carried.
C10_FrameEffect ==
    /\ pc = "draw" =>
          /\ C10_Count("rectangle") = k - 1
          /\ C10_Count("text") = k - 1
          /\ Len(frame.overlays) = 2 * (k - 1)
          /\ k - 1 <= C10_Detections
    /\ (pc = "read" /\ pos > 0) =>
          /\ out[Len(out)] = frame
          /\ frame.src = CurName /\ frame.idx = pos
          /\ C10_Count("rectangle") = C10_Detections
          /\ C10_Count("text") = C10_Detections
          /\ Len(frame.overlays) = 2 * C10_Detections
          /\ C10_Detections = 0 => out[Len(out)] = FrameRead(CurName, pos)

\* an unannotated frame written after an annotated one
C10_Witness ==
    /\ pc = "read"
    /\ Len(out) = 2
    /\ Len(out[1].overlays) = 6
    /\ ~dets.has_boxes
    /\ out[2] = FrameRead(CurName, 2)

=============================================================================
